---- MODULE Spec2Model ----
(***************************************************************************)
(* A model of the distributed read-write lock client of lzw5399/rwlock     *)
(* (src/client/redis.go, src/rwinit.go).                                   *)
(*                                                                         *)
(* The client offers Lock, Unlock, RLock and RUnlock.  Each is a retry     *)
(* loop around sendLock, one EVALSHA round trip to the store, which runs   *)
(* the lock procedure atomically.  The procedure itself (lua.ScriptContent)*)
(* is not among the sources: LockProc below is written from the            *)
(* specification's description of the Lock Record.                         *)
(*                                                                         *)
(* One loop iteration of a call is one action: the round trip, the         *)
(* decoding of the reply, the recovery of handleError and the branch the   *)
(* code takes.  The backoff (time.Sleep) is the state pc = "sleep".        *)
(***************************************************************************)
EXTENDS Integers, Sequences, FiniteSets, TLC

(***************************************************************************)
(* Bounds of the model.                                                    *)
(***************************************************************************)
\* Concurrent callers (goroutines of one process sharing Redis, opts, shaHashID).
NumCallers == 2
\* Store misbehaviours injected in one behaviour (restart, script flush,
\* unclassified fault, domain error).
MaxFaults == 1
\* The ghost count of the invocations of one Lock or RLock call saturates here:
\* with two callers, and with one.
MaxSent == 2
MaxSentSeq == 11
\* No new RLock call is started once a key counts this many readers.
MaxReaders == 2

(***************************************************************************)
(* Program constants.                                                      *)
(***************************************************************************)
NoScriptError == "NOSCRIPT No matching script. Please use EVAL."
EofError == "EOF"
LockCmd == "LOCK"
UnlockCmd == "UNLOCK"
RLockCmd == "RLOCK"
RUnlockCmd == "RUNLOCK"
\* expireTime = 5 when the caller's value is <= 0.
DefaultExpireTime == 5
\* i := 10 in Unlock and in RUnlock.
UnlockTries == 10
RUnlockTries == 10

(***************************************************************************)
(* Inputs.                                                                 *)
(***************************************************************************)
Keys == {"", "k"}
HolderIDs == {"h1", "h2"}
ExpireTimes == {-1, 0, 1}
\* A store failure that handleError does not classify.
OtherError == "i/o timeout"
\* The error message of a domain error.
SomeErrMsg == "bad request"
\* The handle SCRIPT LOAD returns: the hash of the script's content.
ScriptSha == "sha1"

VARIABLES
    lock,         \* the store: key -> Lock Record
    serverUp,     \* the store process is running
    scriptLoaded, \* the store's script cache holds the procedure
    faults,       \* misbehaviours injected so far
    Redis,        \* the client's connection: "connected" or "stale";
                  \* "nil" before DoInit
    opts,         \* the retained connection options
    shaHashID,    \* the process-wide Procedure Handle
    pc,           \* per caller: "idle", "loop", "sleep", "done", "panic";
                  \* at startup "init" and "install"
    op,           \* per caller: the operation of the current call
    key,          \* per caller: argument key
    uniqID,       \* per caller: argument uniqID
    expireTime,   \* per caller: Lock's local expireTime, after its clamp
    argExpireTime,\* per caller: the expireTime the call was given (ghost)
    i,            \* per caller: the retry counter of Unlock and RUnlock
    res,          \* per caller: what the last sendLock returned
    sent,         \* per caller: invocations sent by the current call (ghost)
    held          \* per caller: the write locks it returned from Lock with

storeVars == <<lock, serverUp, scriptLoaded, faults>>
clientVars == <<Redis, opts, shaHashID>>
callVars == <<pc, op, key, uniqID, expireTime, argExpireTime, i, res, sent>>
vars == <<lock, serverUp, scriptLoaded, faults, Redis, opts, shaHashID,
          pc, op, key, uniqID, expireTime, argExpireTime, i, res, sent, held>>

(***************************************************************************)
(* responseLock and what sendLock returns, a pointer and an error.          *)
(* nil = TRUE is the nil pointer; err = "" is the nil error.               *)
(***************************************************************************)
Response(opRet, errMsg) ==
    [nil |-> FALSE, OpRet |-> opRet, ErrMsg |-> errMsg, err |-> ""]

Failure(msg) ==
    [nil |-> TRUE, OpRet |-> FALSE, ErrMsg |-> "", err |-> msg]

\* Before the first attempt of a call.
NoResult == [nil |-> TRUE, OpRet |-> FALSE, ErrMsg |-> "", err |-> ""]

IsError(r) == Len(r.ErrMsg) > 0

Success(r) == r.OpRet

(***************************************************************************)
(* The Lock Record and the atomic procedure, from the specification.       *)
(* ttl = 0: no live writer.                                                *)
(***************************************************************************)
FreeRecord == [writer |-> "", ttl |-> 0, readers |-> 0]

WriterLive(rec) == rec.ttl > 0

\* LockProc with RLOCK granted whatever the writer.
LockProcReadIgnoresWriter(rec, cmd, id, expire) ==
    CASE cmd = LockCmd ->
           IF ~WriterLive(rec) /\ rec.readers = 0
           THEN [rec |-> [rec EXCEPT !.writer = id, !.ttl = expire], opRet |-> TRUE]
           ELSE [rec |-> rec, opRet |-> FALSE]
      [] cmd = UnlockCmd ->
           IF WriterLive(rec) /\ rec.writer = id
           THEN [rec |-> [rec EXCEPT !.writer = "", !.ttl = 0], opRet |-> TRUE]
           ELSE [rec |-> rec, opRet |-> FALSE]
      [] cmd = RLockCmd ->
           [rec |-> [rec EXCEPT !.readers = @ + 1], opRet |-> TRUE]
      [] cmd = RUnlockCmd ->
           IF rec.readers > 0
           THEN [rec |-> [rec EXCEPT !.readers = @ - 1], opRet |-> TRUE]
           ELSE [rec |-> rec, opRet |-> FALSE]

\* The procedure with an UNLOCK that releases whoever holds the lock.
LockProcUnlockIgnoresHolder(rec, cmd, id, expire) ==
    CASE cmd = LockCmd ->
           IF ~WriterLive(rec) /\ rec.readers = 0
           THEN [rec |-> [rec EXCEPT !.writer = id, !.ttl = expire], opRet |-> TRUE]
           ELSE [rec |-> rec, opRet |-> FALSE]
      [] cmd = UnlockCmd ->
           IF WriterLive(rec)
           THEN [rec |-> [rec EXCEPT !.writer = "", !.ttl = 0], opRet |-> TRUE]
           ELSE [rec |-> rec, opRet |-> FALSE]
      [] cmd = RLockCmd ->
           IF ~WriterLive(rec)
           THEN [rec |-> [rec EXCEPT !.readers = @ + 1], opRet |-> TRUE]
           ELSE [rec |-> rec, opRet |-> FALSE]
      [] cmd = RUnlockCmd ->
           IF rec.readers > 0
           THEN [rec |-> [rec EXCEPT !.readers = @ - 1], opRet |-> TRUE]
           ELSE [rec |-> rec, opRet |-> FALSE]

LockProc(rec, cmd, id, expire) ==
    CASE cmd = LockCmd ->
           IF ~WriterLive(rec) /\ rec.readers = 0
           THEN [rec |-> [rec EXCEPT !.writer = id, !.ttl = expire], opRet |-> TRUE]
           ELSE [rec |-> rec, opRet |-> FALSE]
      [] cmd = UnlockCmd ->
           IF WriterLive(rec) /\ rec.writer = id
           THEN [rec |-> [rec EXCEPT !.writer = "", !.ttl = 0], opRet |-> TRUE]
           ELSE [rec |-> rec, opRet |-> FALSE]
      [] cmd = RLockCmd ->
           IF ~WriterLive(rec)
           THEN [rec |-> [rec EXCEPT !.readers = @ + 1], opRet |-> TRUE]
           ELSE [rec |-> rec, opRet |-> FALSE]
      [] cmd = RUnlockCmd ->
           IF rec.readers > 0
           THEN [rec |-> [rec EXCEPT !.readers = @ - 1], opRet |-> TRUE]
           ELSE [rec |-> rec, opRet |-> FALSE]

(***************************************************************************)
(* strconv.Itoa, and the procedure's reading of the number back.  A        *)
(* decimal numeral is the sequence of its digits, a leading "-" for a      *)
(* negative number.                                                        *)
(***************************************************************************)
Digits == <<"0", "1", "2", "3", "4", "5", "6", "7", "8", "9">>

RECURSIVE ItoaNat(_)
ItoaNat(n) ==
    IF n < 10 THEN <<Digits[n + 1]>>
    ELSE Append(ItoaNat(n \div 10), Digits[(n % 10) + 1])

Itoa(n) == IF n < 0 THEN <<"-">> \o ItoaNat(0 - n) ELSE ItoaNat(n)

DigitValue(d) == (CHOOSE j \in 1..10 : Digits[j] = d) - 1

RECURSIVE AtoiNat(_)
AtoiNat(s) ==
    IF Len(s) = 0 THEN 0
    ELSE 10 * AtoiNat(SubSeq(s, 1, Len(s) - 1)) + DigitValue(s[Len(s)])

ToNumber(s) == IF s[1] = "-" THEN 0 - AtoiNat(Tail(s)) ELSE AtoiNat(s)

(***************************************************************************)
(* sendLock: the EVALSHA request of one attempt.                           *)
(***************************************************************************)
\* sendLock whose read requests are sent as LOCK and UNLOCK.
SendLockRequestReadAsWrite(sha, k, id, lockCmd, expire) ==
    CASE lockCmd \in {LockCmd, RLockCmd} ->
           [sha |-> sha, keys |-> <<k, LockCmd>>, args |-> <<id, Itoa(expire)>>]
      [] lockCmd \in {UnlockCmd, RUnlockCmd} ->
           [sha |-> sha, keys |-> <<k, UnlockCmd>>, args |-> <<id>>]

\* sendLock whose UNLOCK request carries no holder id.
SendLockRequestUnlockOmitsID(sha, k, id, lockCmd, expire) ==
    CASE lockCmd = LockCmd ->
           [sha |-> sha, keys |-> <<k, lockCmd>>, args |-> <<id, Itoa(expire)>>]
      [] lockCmd = UnlockCmd ->
           [sha |-> sha, keys |-> <<k, lockCmd>>, args |-> <<"">>]
      [] lockCmd \in {RLockCmd, RUnlockCmd} ->
           [sha |-> sha, keys |-> <<k, lockCmd>>, args |-> <<id>>]

SendLockRequest(sha, k, id, lockCmd, expire) ==
    CASE lockCmd = LockCmd ->
           [sha |-> sha, keys |-> <<k, lockCmd>>, args |-> <<id, Itoa(expire)>>]
      [] lockCmd = UnlockCmd ->
           [sha |-> sha, keys |-> <<k, lockCmd>>, args |-> <<id>>]
      [] lockCmd \in {RLockCmd, RUnlockCmd} ->
           [sha |-> sha, keys |-> <<k, lockCmd>>, args |-> <<id>>]

(***************************************************************************)
(* The store's answers to one EVALSHA, each with the Lock Records it       *)
(* leaves and the number of injected misbehaviours it uses.                *)
(*   - a connection the store closed (it restarted) yields EOF;            *)
(*   - a store that is down yields an unclassified failure (the dial is    *)
(*     refused) or EOF (the connection is accepted and closed);            *)
(*   - an unknown handle yields NOSCRIPT;                                  *)
(*   - otherwise the procedure runs atomically and its reply is decoded.   *)
(* Injected: a domain error (the procedure reports an error message and    *)
(* changes nothing), and an unclassified failure (a timeout, a reply that  *)
(* does not decode) before or after the procedure ran.                     *)
(***************************************************************************)
EvalSha(req) ==
    IF Redis = "stale"
    THEN {[res |-> Failure(EofError), lock |-> lock, cost |-> 0]}
    ELSE IF ~serverUp
    THEN {[res |-> Failure(e), lock |-> lock, cost |-> 0] :
             e \in {OtherError, EofError}}
    ELSE IF ~scriptLoaded \/ req.sha # ScriptSha
    THEN {[res |-> Failure(NoScriptError), lock |-> lock, cost |-> 0]}
    ELSE
      LET k == req.keys[1]
          cmd == req.keys[2]
          expire == IF cmd = LockCmd THEN ToNumber(req.args[2]) ELSE 0
          p == LockProc(lock[k], cmd, req.args[1], expire)
          applied == [lock EXCEPT ![k] = p.rec]
      IN  {[res |-> Response(p.opRet, ""), lock |-> applied, cost |-> 0]}
          \cup
          (IF faults < MaxFaults
           THEN {[res |-> Response(b, SomeErrMsg), lock |-> lock, cost |-> 1] :
                    b \in BOOLEAN}
                \cup
                {[res |-> Failure(OtherError), lock |-> l, cost |-> 1] :
                    l \in {lock, applied}}
           ELSE {})

sendLock(sha, k, id, lockCmd, expire) ==
    EvalSha(SendLockRequest(sha, k, id, lockCmd, expire))

(***************************************************************************)
(* The process-wide state the recovery rewrites, as one record:            *)
(* Redis, opts, shaHashID, the store's script cache, err, the error the    *)
(* function returns ("" is nil), and calls, the functions entered so far.  *)
(***************************************************************************)
OptionKinds == {"Options", "FailoverOptions", "ClusterOptions"}

World == [Redis |-> Redis, opts |-> opts, shaHashID |-> shaHashID,
          scriptLoaded |-> scriptLoaded, err |-> "", calls |-> <<>>]

\* shaHashID is read and written without synchronisation.  The handle is the
\* hash of the script's content, so a write stores the value already there
\* and a racing read yields that value.
GetShaHashID == shaHashID

SetShaHasID(w, str) == [w EXCEPT !.shaHashID = str]

LoadLua(w) ==
    LET w0 == [w EXCEPT !.calls = Append(@, "LoadLua")]
    IN  IF w0.Redis = "connected" /\ serverUp
        THEN [SetShaHasID(w0, ScriptSha) EXCEPT !.scriptLoaded = TRUE, !.err = ""]
        ELSE [w0 EXCEPT !.err = IF w0.Redis = "stale" THEN EofError ELSE OtherError]

\* DoInit retaining the options before the probe.
DoInitProbeRetainsFirst(w, optObj) ==
    LET w0 == [w EXCEPT !.calls = Append(@, "DoInit")]
    IN  IF optObj \notin OptionKinds
        THEN [w0 EXCEPT !.err = "unsupported options"]
        ELSE LET w1 == [w0 EXCEPT !.Redis = "connected", !.opts = optObj]
             IN  IF ~serverUp
                 THEN [w1 EXCEPT !.err = OtherError]
                 ELSE [w1 EXCEPT !.err = ""]

\* DoInit up to `opts = optObj`: the client is built and probed with Ping.
DoInitProbe(w, optObj) ==
    LET w0 == [w EXCEPT !.calls = Append(@, "DoInit")]
    IN  IF optObj \notin OptionKinds
        THEN [w0 EXCEPT !.err = "unsupported options"]
        ELSE LET w1 == [w0 EXCEPT !.Redis = "connected"]
             IN  IF ~serverUp
                 THEN [w1 EXCEPT !.err = OtherError]
                 ELSE [w1 EXCEPT !.opts = optObj, !.err = ""]

DoInit(w, optObj) ==
    LET w1 == DoInitProbe(w, optObj)
    IN  IF w1.err # "" THEN w1 ELSE LoadLua(w1)

\* handleEofError that only reloads the script on the old client.
handleEofErrorKeepsClient(w) == LoadLua(w)

handleEofError(w) == DoInit(w, w.opts)

handleNoScriptError(w) == LoadLua(w)

\* handleError reinitializing the client on every unclassified error.
handleErrorReinitsOnAny(w, err) ==
    CASE err = "" -> w
      [] err = EofError -> handleEofError(w)
      [] err = NoScriptError -> handleNoScriptError(w)
      [] OTHER -> handleEofError(w)

\* handleError without its NoScriptError case.
handleErrorIgnoresNoScript(w, err) ==
    CASE err = "" -> w
      [] err = EofError -> handleEofError(w)
      [] OTHER -> w

\* The world handleError leaves; its boolean result is err = "" of a
\* classified error.
handleError(w, err) ==
    CASE err = "" -> w
      [] err = EofError -> handleEofError(w)
      [] err = NoScriptError -> handleNoScriptError(w)
      [] OTHER -> w

(***************************************************************************)
(* The branch each loop takes on what sendLock returned: the next pc.      *)
(***************************************************************************)
\* LockBranch aborting when the lock is not granted.
LockBranchAbortsWhenHeld(r) ==
    IF r.err # "" THEN "sleep"
    ELSE IF IsError(r) THEN "panic"
    ELSE IF Success(r) THEN "done"
    ELSE "panic"

\* LockBranch returning on every reply without an error message.
LockBranchReturnsUngranted(r) ==
    IF r.err # "" THEN "sleep"
    ELSE IF ~r.nil /\ IsError(r) THEN "panic"
    ELSE "done"

\* Lock, lines 100-115.
LockBranch(r) ==
    IF r.err # "" THEN "sleep"
    ELSE IF ~r.nil /\ IsError(r) THEN "panic"
    ELSE IF ~r.nil /\ Success(r) THEN "done"
    ELSE "sleep"

\* Unlock, lines 122-137; n is i before the iteration.
UnlockBranch(r, n) ==
    IF ~r.nil /\ Success(r) THEN "done"
    ELSE IF ~r.nil /\ IsError(r) THEN "panic"
    ELSE IF n - 1 <= 0 THEN "done"
    ELSE "sleep"

\* RLockBranch giving up on a store failure.
RLockBranchReturnsOnFailure(r) ==
    IF ~r.nil /\ Success(r) THEN "done"
    ELSE IF r.err # "" THEN "done"
    ELSE "sleep"

\* RLock, lines 143-153.
RLockBranch(r) ==
    IF ~r.nil /\ Success(r) THEN "done"
    ELSE "sleep"

\* RUnlockBranch with Unlock's abort on an error message.
RUnlockBranchPanicsOnError(r, n) ==
    IF ~r.nil /\ Success(r) THEN "done"
    ELSE IF ~r.nil /\ IsError(r) THEN "panic"
    ELSE IF n - 1 <= 0 THEN "done"
    ELSE "sleep"

\* RUnlock, lines 163-176.
RUnlockBranch(r, n) ==
    IF ~r.nil /\ Success(r) THEN "done"
    ELSE IF n - 1 <= 0 THEN "done"
    ELSE "sleep"

\* UnlockCount with a free retry after a classified store failure.
UnlockCountSkipsRecovered(r, n) ==
    IF ~r.nil /\ (Success(r) \/ IsError(r)) THEN n
    ELSE IF r.err \in {EofError, NoScriptError} THEN n
    ELSE n - 1

\* i after the iteration: i-- is reached unless the loop left before it.
UnlockCount(r, n) ==
    IF ~r.nil /\ (Success(r) \/ IsError(r)) THEN n ELSE n - 1

RUnlockCount(r, n) ==
    IF ~r.nil /\ Success(r) THEN n ELSE n - 1

\* The entry checks: len(key) < 0 in Lock, len(key) <= 0 in RUnlock.
LockKeyPanics(k) == Len(k) < 0

\* RUnlock's check written as Lock's.
RUnlockKeyNeverPanics(k) == Len(k) < 0

RUnlockKeyPanics(k) == Len(k) <= 0

\* The clamp replacing only a lease of 0.
ClampExpireTimeOnlyZero(e) == IF e = 0 THEN DefaultExpireTime ELSE e

ClampExpireTime(e) == IF e <= 0 THEN DefaultExpireTime ELSE e

(***************************************************************************)
(* The initial state: rwlock.Init has returned (the store answered the     *)
(* probe and the procedure is installed), no lock is held, no call is      *)
(* running.                                                                *)
(***************************************************************************)
Start(callers) ==
    /\ lock = [k \in Keys |-> FreeRecord]
    /\ serverUp = TRUE
    /\ scriptLoaded = TRUE
    /\ faults = 0
    /\ Redis = "connected"
    /\ opts = "Options"
    /\ shaHashID = ScriptSha
    /\ pc = [c \in callers |-> "idle"]
    /\ op = [c \in callers |-> ""]
    /\ key = [c \in callers |-> ""]
    /\ uniqID = [c \in callers |-> ""]
    /\ expireTime = [c \in callers |-> 0]
    /\ argExpireTime = [c \in callers |-> 0]
    /\ i = [c \in callers |-> 0]
    /\ res = [c \in callers |-> NoResult]
    /\ sent = [c \in callers |-> 0]
    /\ held = [c \in callers |-> {}]

Init == Start(1..NumCallers)

\* The callers of a behaviour.
Callers == DOMAIN pc

(***************************************************************************)
(* The start of a call: the code before the loop.  A caller starts a call  *)
(* when it runs none.  A panic ends the caller: "panic" has no successor.  *)
(***************************************************************************)
Begin(c, cmd, k, id, arg, expire, tries, panics) ==
    /\ pc[c] \in {"idle", "done"}
    /\ pc' = [pc EXCEPT ![c] = IF panics THEN "panic" ELSE "loop"]
    /\ op' = [op EXCEPT ![c] = cmd]
    /\ key' = [key EXCEPT ![c] = k]
    /\ uniqID' = [uniqID EXCEPT ![c] = id]
    /\ expireTime' = [expireTime EXCEPT ![c] = expire]
    /\ argExpireTime' = [argExpireTime EXCEPT ![c] = arg]
    /\ i' = [i EXCEPT ![c] = IF panics THEN 0 ELSE tries]
    /\ res' = [res EXCEPT ![c] = NoResult]
    /\ sent' = [sent EXCEPT ![c] = 0]
    /\ UNCHANGED <<storeVars, clientVars, held>>

CallLock(c, K, E) ==
    \E k \in K, id \in HolderIDs, e \in E :
        Begin(c, LockCmd, k, id, e, ClampExpireTime(e), 0, LockKeyPanics(k))

CallUnlock(c, K) ==
    \E k \in K, id \in HolderIDs :
        Begin(c, UnlockCmd, k, id, 0, 0, UnlockTries, FALSE)

CallRLock(c, K) ==
    \E k \in K :
        /\ lock[k].readers < MaxReaders
        /\ Begin(c, RLockCmd, k, "", 0, 0, 0, FALSE)

CallRUnlock(c, K) ==
    \E k \in K :
        Begin(c, RUnlockCmd, k, "", 0, 0, RUnlockTries, RUnlockKeyPanics(k))

(***************************************************************************)
(* One iteration of a loop: sendLock, handleError on a failure, and the    *)
(* branch.  o is the store's answer, next the pc and n the counter the     *)
(* loop's code makes of it; the ghost count sent saturates at cap (for a    *)
(* release, one past its tries).                                           *)
(***************************************************************************)
Iterate(c, o, next, n, cap) ==
    LET w == handleError(World, o.res.err)
        released == IF op[c] = UnlockCmd /\ o.lock # lock
                    THEN {<<key[c], uniqID[c]>>} ELSE {}
        acquired == IF op[c] = LockCmd /\ next = "done"
                    THEN {<<key[c], uniqID[c]>>} ELSE {}
    IN  /\ res' = [res EXCEPT ![c] = o.res]
        /\ sent' = [sent EXCEPT ![c] = IF @ < cap THEN @ + 1 ELSE @]
        /\ pc' = [pc EXCEPT ![c] = next]
        /\ i' = [i EXCEPT ![c] = n]
        /\ lock' = o.lock
        /\ faults' = faults + o.cost
        /\ Redis' = w.Redis
        /\ opts' = w.opts
        /\ shaHashID' = w.shaHashID
        /\ scriptLoaded' = w.scriptLoaded
        /\ held' = [d \in Callers |->
                      (held[d] \ released) \cup (IF d = c THEN acquired ELSE {})]
        /\ UNCHANGED <<serverUp, op, key, uniqID, expireTime, argExpireTime>>

Lock(c, cap) ==
    /\ pc[c] = "loop" /\ op[c] = LockCmd
    /\ \E o \in sendLock(GetShaHashID, key[c], uniqID[c], LockCmd, expireTime[c]) :
          Iterate(c, o, LockBranch(o.res), i[c], cap)

Unlock(c) ==
    /\ pc[c] = "loop" /\ op[c] = UnlockCmd
    /\ \E o \in sendLock(GetShaHashID, key[c], uniqID[c], UnlockCmd, 0) :
          Iterate(c, o, UnlockBranch(o.res, i[c]), UnlockCount(o.res, i[c]),
                  UnlockTries + 1)

RLock(c, cap) ==
    /\ pc[c] = "loop" /\ op[c] = RLockCmd
    /\ \E o \in sendLock(GetShaHashID, key[c], "", RLockCmd, 0) :
          Iterate(c, o, RLockBranch(o.res), i[c], cap)

RUnlock(c) ==
    /\ pc[c] = "loop" /\ op[c] = RUnlockCmd
    /\ \E o \in sendLock(GetShaHashID, key[c], "", RUnlockCmd, 0) :
          Iterate(c, o, RUnlockBranch(o.res, i[c]), RUnlockCount(o.res, i[c]),
                  RUnlockTries + 1)

\* time.Sleep(getRandomSleepTime()) returns.
Wake(c) ==
    /\ pc[c] = "sleep"
    /\ pc' = [pc EXCEPT ![c] = "loop"]
    /\ UNCHANGED <<storeVars, clientVars, op, key, uniqID, expireTime,
                   argExpireTime, i, res, sent, held>>

(***************************************************************************)
(* The store's own steps.                                                  *)
(***************************************************************************)
\* A second passes: every live lease loses one, and a lease at 0 is gone.
Tick ==
    /\ \E k \in Keys : WriterLive(lock[k])
    /\ lock' = [k \in Keys |->
                  IF lock[k].ttl > 1 THEN [lock[k] EXCEPT !.ttl = @ - 1]
                  ELSE [lock[k] EXCEPT !.ttl = 0, !.writer = ""]]
    /\ held' = [c \in Callers |->
                  held[c] \ {<<k, lock[k].writer>> : k \in {x \in Keys : lock[x].ttl = 1}}]
    /\ UNCHANGED <<serverUp, scriptLoaded, faults, clientVars, callVars>>

\* The store process stops: its connections close and its script cache is
\* lost.  The Lock Records are kept (the store's persistence).
ServerCrash ==
    /\ serverUp /\ faults < MaxFaults
    /\ serverUp' = FALSE
    /\ scriptLoaded' = FALSE
    /\ Redis' = IF Redis = "connected" THEN "stale" ELSE Redis
    /\ faults' = faults + 1
    /\ UNCHANGED <<lock, opts, shaHashID, callVars, held>>

ServerStart ==
    /\ ~serverUp
    /\ serverUp' = TRUE
    /\ UNCHANGED <<lock, scriptLoaded, faults, clientVars, callVars, held>>

\* SCRIPT FLUSH: the store evicts the procedure.
ScriptFlush ==
    /\ serverUp /\ scriptLoaded /\ faults < MaxFaults
    /\ scriptLoaded' = FALSE
    /\ faults' = faults + 1
    /\ UNCHANGED <<lock, serverUp, clientVars, callVars, held>>

Next ==
    \/ \E c \in Callers : CallLock(c, {"k"}, {1})
    \/ \E c \in Callers : CallUnlock(c, {"k"})
    \/ \E c \in Callers : CallRLock(c, {"k"})
    \/ \E c \in Callers : CallRUnlock(c, {"k"})
    \/ \E c \in Callers : Lock(c, MaxSent)
    \/ \E c \in Callers : Unlock(c)
    \/ \E c \in Callers : RLock(c, MaxSent)
    \/ \E c \in Callers : RUnlock(c)
    \/ \E c \in Callers : Wake(c)
    \/ Tick
    \/ ServerCrash
    \/ ServerStart
    \/ ScriptFlush

Spec == Init /\ [][Next]_vars

(***************************************************************************)
(* One caller, every input: the empty key, the lease the clamp replaces,   *)
(* and a count of the attempts that goes past the tries of a release.      *)
(***************************************************************************)
InitSeq == Start({1})

NextSeq ==
    \/ \E c \in Callers : CallLock(c, Keys, ExpireTimes)
    \/ \E c \in Callers : CallUnlock(c, Keys)
    \/ \E c \in Callers : CallRLock(c, Keys)
    \/ \E c \in Callers : CallRUnlock(c, Keys)
    \/ \E c \in Callers : Lock(c, MaxSentSeq)
    \/ \E c \in Callers : Unlock(c)
    \/ \E c \in Callers : RLock(c, MaxSentSeq)
    \/ \E c \in Callers : RUnlock(c)
    \/ \E c \in Callers : Wake(c)
    \/ Tick
    \/ ServerCrash
    \/ ServerStart
    \/ ScriptFlush

SpecSeq == InitSeq /\ [][NextSeq]_vars

(***************************************************************************)
(* One caller on the key "k", with every lease, scheduled fairly: a goroutine in a loop      *)
(* takes its next iteration, a sleep ends, and time passes while a lease   *)
(* is live.  Nothing obliges the store to fail or to come back.            *)
(***************************************************************************)
NextLive ==
    \/ \E c \in Callers : CallLock(c, {"k"}, ExpireTimes)
    \/ \E c \in Callers : CallUnlock(c, {"k"})
    \/ \E c \in Callers : CallRLock(c, {"k"})
    \/ \E c \in Callers : CallRUnlock(c, {"k"})
    \/ \E c \in Callers : Lock(c, MaxSent)
    \/ \E c \in Callers : Unlock(c)
    \/ \E c \in Callers : RLock(c, MaxSent)
    \/ \E c \in Callers : RUnlock(c)
    \/ \E c \in Callers : Wake(c)
    \/ Tick
    \/ ServerCrash
    \/ ServerStart
    \/ ScriptFlush

Fairness ==
    /\ WF_vars(Lock(1, MaxSent))
    /\ WF_vars(Unlock(1))
    /\ WF_vars(RLock(1, MaxSent))
    /\ WF_vars(RUnlock(1))
    /\ WF_vars(Wake(1))
    /\ WF_vars(Tick)

SpecLive == InitSeq /\ [][NextLive]_vars /\ Fairness

(***************************************************************************)
(* Startup: the process calls rwlock.Init before anything else.  The       *)
(* store may be down, and may stop between the probe and the install.      *)
(* DoInit is taken in its two round trips; an error of either makes Init   *)
(* panic.  After Init the one caller works as in SpecLive.                 *)
(***************************************************************************)
\* What Init may be given: the three option types and a value of another.
OptionValues == OptionKinds \cup {"string"}

InitBoot ==
    /\ lock = [k \in Keys |-> FreeRecord]
    /\ serverUp \in BOOLEAN
    /\ scriptLoaded = FALSE
    /\ faults = 0
    /\ Redis = "nil"
    /\ opts = "nil"
    /\ shaHashID = ""
    /\ pc = [c \in {1} |-> "init"]
    /\ op = [c \in {1} |-> ""]
    /\ key = [c \in {1} |-> ""]
    /\ uniqID = [c \in {1} |-> ""]
    /\ expireTime = [c \in {1} |-> 0]
    /\ argExpireTime = [c \in {1} |-> 0]
    /\ i = [c \in {1} |-> 0]
    /\ res = [c \in {1} |-> NoResult]
    /\ sent = [c \in {1} |-> 0]
    /\ held = [c \in {1} |-> {}]

\* The step of Init from w0 to w, and the pc it leads to.
InitStep(c, w, next) ==
    /\ pc' = [pc EXCEPT ![c] = IF w.err # "" THEN "panic" ELSE next]
    /\ Redis' = w.Redis
    /\ opts' = w.opts
    /\ shaHashID' = w.shaHashID
    /\ scriptLoaded' = w.scriptLoaded
    /\ UNCHANGED <<lock, serverUp, faults, op, key, uniqID, expireTime,
                   argExpireTime, i, res, sent, held>>

\* Init, DoInit: the type switch, the client, Ping, opts.
InitProbe(c) ==
    /\ pc[c] = "init"
    /\ \E optObj \in OptionValues :
          InitStep(c, DoInitProbe(World, optObj), "install")

\* DoInit: LoadLua, and the return to Init.
InitInstall(c) ==
    /\ pc[c] = "install"
    /\ InitStep(c, LoadLua(World), "idle")

NextInit ==
    \/ \E c \in Callers : InitProbe(c)
    \/ \E c \in Callers : InitInstall(c)
    \/ NextLive

SpecInit == InitBoot /\ [][NextInit]_vars

(***************************************************************************)
(* Vocabulary of the properties.                                           *)
(***************************************************************************)
\* Caller c takes a loop iteration in this step: every iteration leaves "loop".
Iterates(c) == pc[c] = "loop" /\ pc'[c] # "loop"

\* What sendLock returned is a decoded reply / a store failure.
IsReply(r) == ~r.nil /\ r.err = ""

IsFault(r) == r.err # ""

\* A decoded reply with an error message.
DomainError(r) == IsReply(r) /\ IsError(r)

\* A decoded reply with no error message and succeeded = false.
NotYet(r) == IsReply(r) /\ ~IsError(r) /\ ~Success(r)

\* A decoded reply with no error message and succeeded = true.
Granted(r) == IsReply(r) /\ ~IsError(r) /\ Success(r)

(***************************************************************************)
(* C1.  For every key, the Lock Record never has a live writer and a       *)
(* non-zero reader count at once; an RLOCK attempt issued while a writer   *)
(* is live is not granted and adds no reader, and a LOCK attempt issued    *)
(* while the reader count is non-zero is not granted, does not make Lock   *)
(* return and installs no writer.                                          *)
(***************************************************************************)
C1_RecordExclusive ==
    \A k \in Keys : ~(WriterLive(lock[k]) /\ lock[k].readers > 0)

C1_WriterReaderExclusion ==
    /\ []C1_RecordExclusive
    /\ [][\A c \in Callers :
            Iterates(c) =>
              /\ (op[c] = RLockCmd /\ WriterLive(lock[key[c]])) =>
                    /\ ~Granted(res'[c])
                    /\ lock'[key[c]].readers = lock[key[c]].readers
              /\ (op[c] = LockCmd /\ lock[key[c]].readers > 0) =>
                    /\ ~Granted(res'[c])
                    /\ pc'[c] # "done"
                    /\ ~WriterLive(lock'[key[c]])]_vars

\* A reader was told "not yet" under a live writer, and a writer under a reader.
C1_Witness ==
    \E c, d \in Callers :
        /\ op[c] = RLockCmd /\ pc[c] = "sleep" /\ NotYet(res[c])
        /\ WriterLive(lock[key[c]])
        /\ op[d] = LockCmd /\ pc[d] = "done" /\ key[d] = key[c]

(***************************************************************************)
(* C2.  Two different holders never both hold the write lock of a key: a   *)
(* caller that returned from Lock, and whose lock was neither released by  *)
(* an UNLOCK nor expired since, is the writer of the key's Lock Record, so *)
(* a Lock of another holder has not returned in the meantime.              *)
(***************************************************************************)
C2_OneWriteHolder ==
    /\ \A c \in Callers : \A h \in held[c] :
          WriterLive(lock[h[1]]) /\ lock[h[1]].writer = h[2]
    /\ \A c, d \in Callers : \A g \in held[c], h \in held[d] :
          g[1] = h[1] => g[2] = h[2]

\* h1 holds the key and another caller's Lock for h2 was refused and backs off.
C2_Witness ==
    \E c, d \in Callers :
        /\ c # d
        /\ held[c] # {}
        /\ op[d] = LockCmd /\ pc[d] = "sleep" /\ NotYet(res[d])
        /\ \E h \in held[c] : h[1] = key[d] /\ h[2] # uniqID[d]

(***************************************************************************)
(* C3.  Lock and RLock return only from an iteration whose decoded reply   *)
(* has succeeded = true.  An iteration that ends in a store failure, or in *)
(* a reply with succeeded = false and no error message, puts the call to   *)
(* sleep, and a sleeping call only wakes into the loop again, whatever the *)
(* number of attempts it has made.                                         *)
(***************************************************************************)
Acquires(c) == op[c] \in {LockCmd, RLockCmd}

C3_AcquireRetriesUntilSuccess ==
    /\ [](\A c \in Callers :
            Acquires(c) =>
              /\ pc[c] = "done" => IsReply(res[c]) /\ Success(res[c])
              /\ (IsFault(res[c]) \/ NotYet(res[c])) => pc[c] \in {"sleep", "loop"})
    /\ [][\A c \in Callers :
            Acquires(c) =>
              /\ (pc[c] # "done" /\ pc'[c] = "done") =>
                    Iterates(c) /\ IsReply(res'[c]) /\ Success(res'[c])
              /\ (Iterates(c) /\ (IsFault(res'[c]) \/ NotYet(res'[c]))) =>
                    pc'[c] = "sleep"
              /\ (pc[c] = "sleep" /\ pc'[c] # "sleep") =>
                    pc'[c] = "loop" /\ op'[c] = op[c]]_vars

\* A Lock still retrying after more attempts than a release ever makes, and
\* an RLock backing off after a store failure.
C3_Witness ==
    \/ \E c \in Callers :
          /\ op[c] = LockCmd /\ pc[c] = "sleep" /\ NotYet(res[c])
          /\ sent[c] > UnlockTries
    \/ \E c \in Callers :
          /\ op[c] = RLockCmd /\ pc[c] = "sleep" /\ IsFault(res[c])
          /\ sent[c] > RUnlockTries

(***************************************************************************)
(* C4.  Lock with an empty key aborts before it sends anything: the call   *)
(* is in "panic" and has sent no invocation.                               *)
(***************************************************************************)
C4_LockEmptyKeyAborts ==
    \A c \in Callers :
        (op[c] = LockCmd /\ key[c] = "") => pc[c] = "panic" /\ sent[c] = 0

(***************************************************************************)
(* C5.  RUnlock with an empty key aborts before it sends anything: the     *)
(* call is in "panic", has sent no invocation, has no reply and never set  *)
(* its retry counter; the step that aborts it leaves the Lock Records as   *)
(* they were.                                                              *)
(***************************************************************************)
C5_RUnlockEmptyKeyAborts ==
    /\ [](\A c \in Callers :
            (op[c] = RUnlockCmd /\ key[c] = "") =>
                pc[c] = "panic" /\ sent[c] = 0 /\ i[c] = 0 /\ res[c] = NoResult)
    /\ [][\A c \in Callers :
            (op'[c] = RUnlockCmd /\ key'[c] = "" /\ pc[c] # "panic") =>
                pc'[c] = "panic" /\ lock' = lock]_vars

\* Aborted on the empty key while the key "k" counts a reader.
C5_Witness ==
    \E c \in Callers :
        /\ op[c] = RUnlockCmd /\ key[c] = "" /\ pc[c] = "panic"
        /\ lock["k"].readers > 0

(***************************************************************************)
(* C6.  Unlock and RUnlock send at most 10 invocations.  While the call    *)
(* runs, its counter i is 10 less the invocations sent and at least 1, so  *)
(* every iteration that does not end the call takes one from i: a store    *)
(* failure too, recovered or not.  The call returns from the first         *)
(* iteration whose reply has succeeded = true, and otherwise from its 10th *)
(* iteration, in "done" as after a success; a store failure never aborts   *)
(* it.                                                                     *)
(***************************************************************************)
Releases(c) == op[c] \in {UnlockCmd, RUnlockCmd}

Tries(c) == IF op[c] = UnlockCmd THEN UnlockTries ELSE RUnlockTries

Succeeded(r) == IsReply(r) /\ Success(r)

C6_ReleaseBounded ==
    /\ [](\A c \in Callers :
            Releases(c) =>
              /\ sent[c] <= Tries(c)
              /\ pc[c] \in {"loop", "sleep"} =>
                    /\ i[c] = Tries(c) - sent[c]
                    /\ i[c] >= 1
                    /\ ~Succeeded(res[c])
              /\ pc[c] = "done" => Succeeded(res[c]) \/ sent[c] = Tries(c)
              /\ IsFault(res[c]) =>
                    pc[c] # "panic" /\ i[c] = Tries(c) - sent[c])
    /\ [][\A c \in Callers :
            (Releases(c) /\ Iterates(c)) =>
              /\ sent'[c] = sent[c] + 1
              /\ Succeeded(res'[c]) => pc'[c] = "done"
              /\ (~Succeeded(res'[c]) /\ pc'[c] # "panic") =>
                    /\ i'[c] = i[c] - 1
                    /\ pc'[c] = IF i'[c] = 0 THEN "done" ELSE "sleep"]_vars

\* A release returned from its 10th attempt, which failed with NOSCRIPT and
\* whose recovery reinstalled the procedure.
C6_Witness ==
    \E c \in Callers :
        /\ Releases(c) /\ pc[c] = "done" /\ sent[c] = Tries(c) /\ i[c] = 0
        /\ res[c] = Failure(NoScriptError)
        /\ scriptLoaded

(***************************************************************************)
(* C7.  In Lock and Unlock, a reply with an error message aborts the call: *)
(* the call is in "panic", where it sends nothing, takes no backoff and    *)
(* does not return.                                                        *)
(***************************************************************************)
Writes(c) == op[c] \in {LockCmd, UnlockCmd}

C7_WriteDomainErrorAborts ==
    \A c \in Callers :
        (Writes(c) /\ DomainError(res[c])) => pc[c] = "panic"

(***************************************************************************)
(* C8.  In Lock and Unlock the error message decides before the succeeded  *)
(* flag: a reply with an error message aborts the call even with           *)
(* succeeded = true, and only a reply without one makes the call return    *)
(* (succeeded = true) or continue (succeeded = false).                     *)
(***************************************************************************)
C8_ErrorMessageBeforeFlag ==
    \A c \in Callers :
        (Writes(c) /\ IsReply(res[c])) =>
            /\ (IsError(res[c]) /\ Success(res[c])) => pc[c] = "panic"
            /\ (IsError(res[c]) /\ ~Success(res[c])) => pc[c] = "panic"
            /\ Granted(res[c]) => pc[c] = "done"
            /\ NotYet(res[c]) => pc[c] \in {"sleep", "loop", "done"}

C10_RLockDomainErrorRetried ==
    \A c \in Callers :
        op[c] = RLockCmd =>
            /\ pc[c] # "panic"
            /\ DomainError(res[c]) => pc[c] \in {"sleep", "loop"}

(***************************************************************************)
(* C11.  An attempt that fails with NOSCRIPT makes handleError call        *)
(* LoadLua and nothing else: after the iteration the store holds the       *)
(* procedure again, the Procedure Handle is the installed one, and the     *)
(* caller is not aborted.  A Lock that finds the procedure evicted on a     *)
(* free key, with the store reachable and no further fault, is led to      *)
(* return with the lock granted.                                           *)
(***************************************************************************)
\* Lock(k, id, _) of caller c is under way.
LockWaits(c) == op[c] = LockCmd /\ pc[c] \in {"loop", "sleep"}

\* The store is reachable through the client's connection and misbehaves
\* no more.
StoreReachable == serverUp /\ Redis = "connected" /\ faults = MaxFaults

LockReturned(c) == op[c] = LockCmd /\ pc[c] = "done" /\ Granted(res[c])

C11_NoScriptReinstalls ==
    /\ [][\A c \in Callers :
            (Iterates(c) /\ res'[c] = Failure(NoScriptError)) =>
              /\ handleError(World, NoScriptError).calls = <<"LoadLua">>
              /\ scriptLoaded' /\ shaHashID' = ScriptSha
              /\ Redis' = Redis /\ opts' = opts
              /\ pc'[c] # "panic"
              /\ Acquires(c) => pc'[c] = "sleep"]_vars
    /\ \A c \in {1} :
          (LockWaits(c) /\ ~scriptLoaded /\ StoreReachable
             /\ lock[key[c]] = FreeRecord)
          ~> LockReturned(c)

\* A Lock attempt met NOSCRIPT, and the procedure is installed again.
C11_Witness ==
    \E c \in Callers :
        /\ op[c] = LockCmd /\ pc[c] = "sleep"
        /\ res[c] = Failure(NoScriptError)
        /\ scriptLoaded /\ shaHashID = ScriptSha

(***************************************************************************)
(* C12.  An attempt that fails with EOF makes handleError run DoInit on    *)
(* the retained options: the client is rebuilt, and when the store         *)
(* answers the probe the procedure is installed again; when it does not,   *)
(* the recovery fails, the caller is not aborted, and the next attempt     *)
(* that fails with EOF runs the same recovery, whatever the number of      *)
(* attempts before it.  An acquire that waits on a free key with a stale   *)
(* connection, or after a failed recovery, is led to return granted once   *)
(* the store is reachable and fails no more.                               *)
(***************************************************************************)
AcquireWaits(c) == Acquires(c) /\ pc[c] \in {"loop", "sleep"}

AcquireReturned(c) == Acquires(c) /\ pc[c] = "done" /\ Granted(res[c])

C12_EofReinitializes ==
    /\ [][\A c \in Callers :
            (Iterates(c) /\ res'[c] = Failure(EofError)) =>
              LET w == handleError(World, EofError)
              IN  /\ w = DoInit(World, opts)
                  /\ Redis' = "connected" /\ opts' = opts
                  /\ serverUp =>
                        /\ w.calls = <<"DoInit", "LoadLua">> /\ w.err = ""
                        /\ scriptLoaded' /\ shaHashID' = ScriptSha
                  /\ ~serverUp =>
                        /\ w.calls = <<"DoInit">> /\ w.err # ""
                        /\ scriptLoaded' = scriptLoaded
                  /\ pc'[c] # "panic"
                  /\ Acquires(c) => pc'[c] = "sleep"]_vars
    /\ \A c \in {1} :
          /\ (AcquireWaits(c) /\ Redis = "stale" /\ serverUp
                 /\ faults = MaxFaults /\ lock[key[c]] = FreeRecord)
              ~> AcquireReturned(c)
          /\ (AcquireWaits(c) /\ res[c] = Failure(EofError) /\ ~scriptLoaded
                 /\ StoreReachable /\ lock[key[c]] = FreeRecord)
              ~> AcquireReturned(c)

\* A second attempt in a row failed with EOF while the store was down: the
\* recovery of the first had failed, and the client has been rebuilt again.
C12_Witness ==
    \E c \in Callers :
        /\ Acquires(c) /\ pc[c] = "sleep" /\ sent[c] = 2
        /\ res[c] = Failure(EofError)
        /\ ~serverUp /\ Redis = "connected" /\ ~scriptLoaded

(***************************************************************************)
(* C13.  With a non-empty key, a positive lease and a store that answers   *)
(* every attempt with the procedure's own reply: a Lock attempt on a free  *)
(* record returns with the caller's holder id installed for the lease,     *)
(* and an Unlock attempt by the holder of a live write lock returns and    *)
(* leaves the record free, so that the next Lock attempt of any holder is  *)
(* granted.  Both calls terminate.                                         *)
(***************************************************************************)
\* The procedure is installed on a reachable store that misbehaves no more.
StoreHealthy == StoreReachable /\ scriptLoaded

\* The attempt of this step was answered by the procedure, without error.
PlainReply(c) == IsReply(res'[c]) /\ ~IsError(res'[c])

UnlockWaits(c) == op[c] = UnlockCmd /\ pc[c] \in {"loop", "sleep"}

C13_LockThenUnlockFrees ==
    /\ [][\A c \in Callers :
            (Iterates(c) /\ PlainReply(c) /\ key[c] # "") =>
              /\ (op[c] = LockCmd /\ argExpireTime[c] > 0
                    /\ lock[key[c]] = FreeRecord) =>
                    /\ pc'[c] = "done" /\ Granted(res'[c])
                    /\ lock'[key[c]] = [writer |-> uniqID[c],
                                        ttl |-> argExpireTime[c],
                                        readers |-> 0]
              /\ (op[c] = UnlockCmd /\ <<key[c], uniqID[c]>> \in held[c]) =>
                    /\ pc'[c] = "done" /\ Granted(res'[c])
                    /\ lock'[key[c]] = FreeRecord]_vars
    /\ \A c \in {1} :
          /\ (LockWaits(c) /\ StoreHealthy /\ lock[key[c]] = FreeRecord)
              ~> LockReturned(c)
          /\ (UnlockWaits(c) /\ StoreHealthy)
              ~> (op[c] = UnlockCmd /\ pc[c] = "done")

\* Lock and then Unlock returned on their first attempts with no fault, and
\* the record is free.
C13_Witness ==
    \E c \in Callers :
        /\ op[c] = UnlockCmd /\ pc[c] = "done" /\ sent[c] = 1
        /\ Granted(res[c]) /\ faults = 0
        /\ lock[key[c]] = FreeRecord /\ held[c] = {}

(***************************************************************************)
(* C14.  Every write lock carries a lease between 1 and the largest lease  *)
(* a Lock call sends, so it expires.  A Lock that waits on a key whose     *)
(* live writer is another holder, with nobody releasing it, on a healthy   *)
(* store, is led to return with the lock granted.                          *)
(***************************************************************************)
LeaseBounded ==
    \A k \in Keys :
        /\ lock[k].ttl \in 0..DefaultExpireTime
        /\ lock[k].ttl = 0 <=> lock[k].writer = ""

HeldByOther(c) ==
    WriterLive(lock[key[c]]) /\ lock[key[c]].writer # uniqID[c]

C14_LeaseExpiryUnblocks ==
    /\ []LeaseBounded
    /\ \A c \in {1} :
          (LockWaits(c) /\ StoreHealthy /\ HeldByOther(c)) ~> LockReturned(c)

\* A Lock returned on a later attempt with the default lease: with no fault,
\* its first attempt was refused by a live writer, which the lone caller,
\* inside Lock, did not release.
C14_Witness ==
    \E c \in Callers :
        /\ LockReturned(c) /\ sent[c] = 2
        /\ faults = 0
        /\ lock[key[c]].writer = uniqID[c]
        /\ argExpireTime[c] = 0 /\ lock[key[c]].ttl = DefaultExpireTime

(***************************************************************************)
(* C15.  An RLOCK attempt on a key with no live write lock, answered by    *)
(* the procedure, is granted whatever the reader count is: RLock returns   *)
(* and the count grows by one.  This holds in every interleaving of the    *)
(* callers' attempts.                                                      *)
(***************************************************************************)
C15_ReadersShare ==
    [][\A c \in Callers :
         (Iterates(c) /\ op[c] = RLockCmd /\ PlainReply(c)
            /\ ~WriterLive(lock[key[c]])) =>
           /\ pc'[c] = "done" /\ Granted(res'[c])
           /\ lock'[key[c]] =
                 [lock[key[c]] EXCEPT !.readers = @ + 1]]_vars

\* Two callers returned from RLock on the same key, and both are counted.
C15_Witness ==
    \E c, d \in Callers :
        /\ c # d /\ key[c] = key[d]
        /\ op[c] = RLockCmd /\ pc[c] = "done" /\ Granted(res[c])
        /\ op[d] = RLockCmd /\ pc[d] = "done" /\ Granted(res[d])
        /\ lock[key[c]].readers = 2 /\ faults = 0

(***************************************************************************)
(* C16.  An UNLOCK attempt of Unlock(key, H) made while H is not the live  *)
(* writer of key (there is none, or it is another holder) changes no Lock  *)
(* Record and no caller's hold, and is not answered "released"; the        *)
(* request carries the key and H, the arguments of the call.               *)
(***************************************************************************)
HoldsWrite(c) ==
    WriterLive(lock[key[c]]) /\ lock[key[c]].writer = uniqID[c]

C16_UnlockByNonHolder ==
    [][\A c \in Callers :
         (Iterates(c) /\ op[c] = UnlockCmd /\ ~HoldsWrite(c)) =>
           /\ SendLockRequest(GetShaHashID, key[c], uniqID[c], UnlockCmd, 0) =
                 [sha |-> shaHashID, keys |-> <<key[c], UnlockCmd>>,
                  args |-> <<uniqID[c]>>]
           /\ lock' = lock
           /\ held' = held
           /\ ~Granted(res'[c])]_vars

\* Unlock(key, H) was refused while another caller holds key as H1 # H.
C16_Witness ==
    \E c, d \in Callers :
        /\ c # d
        /\ op[c] = UnlockCmd /\ pc[c] = "sleep" /\ NotYet(res[c])
        /\ \E h \in held[d] : h[1] = key[c] /\ h[2] # uniqID[c]
        /\ WriterLive(lock[key[c]])

(***************************************************************************)
(* C17.  The lease a Lock call sends with LOCK is the decimal numeral of   *)
(* 5 when the call was given a lease <= 0 and of the given lease when it   *)
(* is positive; it is the same on every attempt of the call, and it is     *)
(* the lease of the write lock the store grants.                           *)
(***************************************************************************)
\* The lease the call of caller c is to send.
LeaseOf(c) == IF argExpireTime[c] <= 0 THEN 5 ELSE argExpireTime[c]

\* The ARGV[2] of the LOCK request caller c sends in this state.
LeaseSent(c) ==
    SendLockRequest(GetShaHashID, key[c], uniqID[c], LockCmd, expireTime[c]).args[2]

C17_LeaseSentIsClamped ==
    /\ [](\A c \in Callers :
            op[c] = LockCmd =>
              /\ LeaseSent(c) = Itoa(LeaseOf(c))
              /\ ToNumber(LeaseSent(c)) = LeaseOf(c))
    /\ [][\A c \in Callers :
            (op[c] = LockCmd /\ pc[c] \in {"loop", "sleep"}) =>
              /\ LeaseSent(c)' = LeaseSent(c)
              /\ (Iterates(c) /\ Granted(res'[c])) =>
                    lock'[key[c]].ttl = LeaseOf(c)]_vars

\* A Lock given a negative lease was refused, retried, and was granted a
\* lease of 5.
C17_Witness ==
    \E c \in Callers :
        /\ LockReturned(c) /\ argExpireTime[c] < 0 /\ sent[c] >= 2
        /\ lock[key[c]].ttl = 5 /\ LeaseSent(c) = <<"5">>

(***************************************************************************)
(* C18.  Init installs the procedure only after the probe has succeeded;   *)
(* an option value of an unsupported type, a failed probe and a failed     *)
(* install each make Init panic, and a panic is final.  The options are    *)
(* retained only by a step whose probe succeeded, and the Procedure        *)
(* Handle is set only by a successful install: no call of Lock, Unlock,    *)
(* RLock or RUnlock starts without both.                                   *)
(***************************************************************************)
\* Init has panicked: no call was ever started.
InitPanicked(c) == pc[c] = "panic" /\ op[c] = ""

C18_InitStages ==
    \A c \in Callers :
        /\ pc[c] = "init" =>
              Redis = "nil" /\ opts = "nil" /\ shaHashID = ""
        /\ pc[c] = "install" =>
              Redis # "nil" /\ opts \in OptionKinds /\ shaHashID = ""
        /\ InitPanicked(c) =>
              /\ shaHashID = ""
              /\ opts = "nil" \/ (opts \in OptionKinds /\ Redis # "nil")
        /\ pc[c] \notin {"init", "install"} /\ ~InitPanicked(c) =>
              Redis # "nil" /\ opts \in OptionKinds /\ shaHashID = ScriptSha

C18_InitProbesThenInstalls ==
    /\ []C18_InitStages
    /\ [][\A c \in Callers :
            /\ pc[c] = "init" =>
                  /\ pc'[c] \in {"init", "install", "panic"}
                  /\ UNCHANGED <<shaHashID, lock>>
                  /\ scriptLoaded' = FALSE
                  /\ pc'[c] = "install" => serverUp /\ Redis' = "connected"
                  /\ pc'[c] = "panic" => opts' = "nil"
            /\ pc[c] = "install" =>
                  /\ pc'[c] \in {"install", "idle", "panic"}
                  /\ UNCHANGED <<opts, lock>>
                  /\ pc'[c] = "idle" =>
                        serverUp /\ scriptLoaded' /\ shaHashID' = ScriptSha
                  /\ pc'[c] = "panic" =>
                        shaHashID' = "" /\ scriptLoaded' = scriptLoaded
            /\ InitPanicked(c) => UNCHANGED <<pc, op, opts, shaHashID, lock>>]_vars

\* The probe succeeded, the store stopped, the install failed: Init has
\* panicked with the options retained and no handle.
C18_Witness ==
    \E c \in Callers :
        /\ InitPanicked(c)
        /\ opts \in OptionKinds /\ Redis = "stale" /\ shaHashID = ""

(***************************************************************************)
(* C19.  An attempt that fails with a store fault other than EOF and       *)
(* NOSCRIPT makes handleError call nothing: the client, the retained       *)
(* options, the Procedure Handle and the store's script cache are as       *)
(* before.  An acquire then sleeps and tries again; a release has used     *)
(* one of its tries, and returns if it was the last.                       *)
(***************************************************************************)
OtherFault(r) == IsFault(r) /\ r.err \notin {EofError, NoScriptError}

C19_OtherFaultNoRecovery ==
    [][\A c \in Callers :
         (Iterates(c) /\ OtherFault(res'[c])) =>
           /\ handleError(World, res'[c].err) = World
           /\ UNCHANGED <<Redis, opts, shaHashID, scriptLoaded, serverUp>>
           /\ Acquires(c) => pc'[c] = "sleep" /\ i'[c] = i[c]
           /\ Releases(c) =>
                 /\ i'[c] = i[c] - 1
                 /\ pc'[c] = IF i[c] = 1 THEN "done" ELSE "sleep"]_vars

\* A release gave up after ten attempts, the last of which failed with an
\* unclassified fault on a store that is down: nothing was reinitialized.
C19_Witness ==
    \E c \in Callers :
        /\ Releases(c) /\ pc[c] = "done" /\ sent[c] = Tries(c) /\ i[c] = 0
        /\ res[c] = Failure(OtherError)
        /\ ~serverUp /\ ~scriptLoaded /\ Redis = "connected"

(***************************************************************************)
(* C20.  Whenever RUnlock(key) with a non-empty key has returned while    *)
(* the key counts a reader, one of its RUNLOCK attempts reported success:  *)
(* the last reply it received carries succeeded = true.  (The code does    *)
(* not keep this: after ten attempts without success RUnlock returns all   *)
(* the same, and the read hold, which has no lease, stays counted.)        *)
(***************************************************************************)
C20_RUnlockReturnReleases ==
    \A c \in Callers :
        (op[c] = RUnlockCmd /\ key[c] # "" /\ pc[c] = "done"
           /\ lock[key[c]].readers > 0) =>
            Succeeded(res[c])

====
